---- MODULE Spec2Model ----
(***************************************************************************)
(* A model of ssqueezepy's wavelet sampler (wavelets.py) and of the       *)
(* forward / inverse continuous wavelet transform (_cwt.py).              *)
(*                                                                         *)
(* Real and complex numbers are kept symbolic: a frequency is a pair       *)
(* (c, m) standing for  c + m * (2*pi/N);  a wavelet sample is the pair    *)
(* (fn, argument); a cell of the transform matrix names the row filter and *)
(* the column it came from, together with the factors applied afterwards.  *)
(* Array shapes, indices, broadcasting, control flow and exceptions are    *)
(* modelled exactly.                                                       *)
(***************************************************************************)
EXTENDS Integers, Sequences, FiniteSets, TLC

\* ------------------------------------------------------------------ bounds
MaxGridN  == 5      \* grid sizes 1..MaxGridN (and 128, 129) for _xi
MaxScale  == 3      \* scale values are 1..MaxScale
MaxLen    == 2      \* signal lengths 1..MaxLen
MaxPadN   == 4      \* padded lengths are the powers of two up to MaxPadN

\* ------------------------------------------------------------- small helpers
RECURSIVE Pow2(_)
Pow2(k) == IF k = 0 THEN 1 ELSE 2 * Pow2(k - 1)

\* (-1) ** k
NegOnePow(k) == IF k % 2 = 0 THEN 1 ELSE -1

\* the frequency  c + m*(2*pi/N)
Freq(c, m, N) == [c |-> c, m |-> m, N |-> N]

\* a plain number a, as a frequency
Scalar(a) == Freq(a, 0, 1)

\* ------------------------------------------------------------------ _xi
\* a faulty variant: for i in range(N // 2)
XiFirstLoopOffByOne(xi, scale, N) ==
    [k \in 1..N |-> IF k - 1 < N \div 2
                    THEN Freq(0, (k - 1) * scale, N) ELSE xi[k]]

\* first loop of _xi:  for i in range(N // 2 + 1): xi[i] = i * h
XiFirstLoop(xi, scale, N) ==
    [k \in 1..N |-> IF k - 1 < N \div 2 + 1
                    THEN Freq(0, (k - 1) * scale, N) ELSE xi[k]]

\* second loop of _xi:  for i in range(N // 2 + 1, N): xi[i] = (i - N) * h
XiSecondLoop(xi, scale, N) ==
    [k \in 1..N |-> IF k - 1 >= N \div 2 + 1 /\ k - 1 < N
                    THEN Freq(0, (k - 1 - N) * scale, N) ELSE xi[k]]

\* xi = np.zeros(N); h = scale * (2*pi) / N; the two loops. Index k here is
\* index k-1 of the numpy array.
_xi(scale, N) ==
    LET zeros == [k \in 1..N |-> Freq(0, 0, N)]
    IN  XiSecondLoop(XiFirstLoop(zeros, scale, N), scale, N)

\* scale * xi, elementwise
ScaleTimes(scale, xi) ==
    [k \in DOMAIN xi |-> Freq(scale * xi[k].c, scale * xi[k].m, xi[k].N)]

\* ------------------------------------------------------------- wavelet specs
SUPPORTED == {"morlet", "bump", "cmhat", "hhhat"}

\* keyword parameters each family constructor accepts
Accepted(name) ==
    CASE name = "morlet" -> {"mu"}
      [] name = "bump"   -> {"mu", "s", "om"}
      [] name = "cmhat"  -> {"mu", "s"}
      [] name = "hhhat"  -> {"mu"}

\* morlet(**wavopts), bump(**wavopts), ...: the callable of the family member
Family(name, wavopts) == [family |-> name, opts |-> wavopts]

NoOpts == {}

\* the forms a `wavelet` argument can take
StrSpec(nm)         == [tag |-> "str",      name |-> nm, len |-> 0, dict |-> FALSE, opts |-> NoOpts]
TupleSpec(l, nm, d, o) == [tag |-> "tuple", name |-> nm, len |-> l, dict |-> d,     opts |-> o]
FunctionSpec(q)     == [tag |-> "function", name |-> q,  len |-> 0, dict |-> FALSE, opts |-> NoOpts]
WaveletInstance(nm) == [tag |-> "Wavelet",  name |-> nm, len |-> 0, dict |-> FALSE, opts |-> NoOpts]
OtherSpec           == [tag |-> "other",    name |-> "", len |-> 0, dict |-> FALSE, opts |-> NoOpts]

Names    == SUPPORTED \cup {"not_a_wavelet"}
OptSets  == {{}, {"mu"}, {"s"}, {"mu", "s"}}

WaveletSpecs ==
    {StrSpec(nm) : nm \in Names}
    \cup {TupleSpec(2, nm, TRUE, o) : nm \in Names, o \in OptSets}
    \cup {TupleSpec(l, nm, d, {"mu"}) : l \in {1, 2, 3}, nm \in {"morlet", "not_a_wavelet"}, d \in BOOLEAN}
    \cup {FunctionSpec("custom_fn"), WaveletInstance("morlet"), OtherSpec}

\* exceptions
NoExc == [exc |-> "none", what |-> ""]
Exc(e, w) == [exc |-> e, what |-> w]

\* a Wavelet object before __init__ has set anything
Unset == [family |-> "unset", opts |-> NoOpts]
NewObject == [fn |-> Unset, name |-> "unset", xi |-> << >>]

\* a faulty variant: the name is stored before it is checked against SUPPORTED
ValidateStoresNameFirst(self, wavelet) ==
    IF wavelet.tag = "function"
    THEN [exc |-> NoExc, self |-> [self EXCEPT !.fn = Family(wavelet.name, NoOpts),
                                               !.name = wavelet.name]]
    ELSE IF wavelet.tag \notin {"tuple", "str"}
    THEN [exc |-> Exc("TypeError", "wavelet spec"), self |-> self]
    ELSE IF wavelet.tag = "tuple" /\ ~(wavelet.len = 2 /\ wavelet.dict)
    THEN [exc |-> Exc("TypeError", "wavelet spec"), self |-> self]
    ELSE LET name    == wavelet.name
             wavopts == IF wavelet.tag = "tuple" THEN wavelet.opts ELSE NoOpts
             named   == [self EXCEPT !.name = name]
         IN  IF name \notin SUPPORTED
             THEN [exc |-> Exc("ValueError", "wavelet not supported"), self |-> named]
             ELSE IF ~(wavopts \subseteq Accepted(name))
             THEN [exc |-> Exc("TypeError", "unexpected keyword"), self |-> named]
             ELSE [exc |-> NoExc, self |-> [named EXCEPT !.fn = Family(name, wavopts)]]

\* Wavelet._validate_and_set_wavelet: the exception raised (or none) and the
\* object afterwards
_validate_and_set_wavelet(self, wavelet) ==
    IF wavelet.tag = "function"
    THEN [exc |-> NoExc, self |-> [self EXCEPT !.fn = Family(wavelet.name, NoOpts),
                                               !.name = wavelet.name]]
    ELSE IF wavelet.tag \notin {"tuple", "str"}
    THEN [exc |-> Exc("TypeError", "wavelet spec"), self |-> self]
    ELSE IF wavelet.tag = "tuple" /\ ~(wavelet.len = 2 /\ wavelet.dict)
    THEN [exc |-> Exc("TypeError", "wavelet spec"), self |-> self]
    ELSE LET name    == wavelet.name
             wavopts == IF wavelet.tag = "tuple" THEN wavelet.opts ELSE NoOpts
         IN  IF name \notin SUPPORTED
             THEN [exc |-> Exc("ValueError", "wavelet not supported"), self |-> self]
             ELSE IF ~(wavopts \subseteq Accepted(name))
             THEN [exc |-> Exc("TypeError", "unexpected keyword"), self |-> self]
             ELSE [exc |-> NoExc,
                   self |-> [self EXCEPT !.fn = Family(name, wavopts), !.name = name]]

\* Wavelet.__init__(wavelet, N)
Wavelet__init__(wavelet, N) ==
    LET v == _validate_and_set_wavelet(NewObject, wavelet)
    IN  IF v.exc # NoExc THEN v
        ELSE [exc |-> NoExc, self |-> [v.self EXCEPT !.xi = _xi(1, N)]]

\* self.fn(w) for a number w, and for an array w
FnAt(fn, w)     == [fn |-> fn, at |-> w]
FnArray(fn, ws) == [k \in DOMAIN ws |-> FnAt(fn, ws[k])]

\* values returned by a call: a number or an array
Num(v) == [shape |-> "scalar", v |-> << v >>]
Arr(v) == [shape |-> "array",  v |-> v]

\* the three ways Wavelet.__call__(w=None, *, scale=None, N=None) is used
PosNum(w)        == [w |-> << w >>, warr |-> FALSE, scale |-> 0, N |-> 0]
PosArr(w)        == [w |-> w,       warr |-> TRUE,  scale |-> 0, N |-> 0]
KwScale(s)       == [w |-> << >>,   warr |-> FALSE, scale |-> s, N |-> 0]
KwScaleN(s, N)   == [w |-> << >>,   warr |-> FALSE, scale |-> s, N |-> N]

\* Wavelet.__call__ ; an absent w is the empty tuple, an absent N is 0
Wavelet__call__(self, a) ==
    IF a.w # << >>
    THEN IF a.warr THEN Arr(FnArray(self.fn, a.w)) ELSE Num(FnAt(self.fn, a.w[1]))
    ELSE IF a.N = 0
    THEN Arr(FnArray(self.fn, ScaleTimes(a.scale, self.xi)))
    ELSE Arr(FnArray(self.fn, _xi(a.scale, a.N)))

\* a faulty variant: a call with an explicit N keeps the grid it generated
CallStoresGeneratedGrid(self, a) ==
    IF a.w = << >> /\ a.N # 0 THEN [self EXCEPT !.xi = _xi(a.scale, a.N)] ELSE self

\* the object after Wavelet.__call__: no branch assigns to an attribute, and
\* `scale * self.xi` builds a new array
Wavelet__call__self(self, a) == self

\* --------------------------------------------------------------- the state
VARIABLES
    pc,         \* position in the running function ("idle" / "done" between calls)
    op,         \* the function last called
    args,       \* arguments of the running call
    caller_x,   \* the caller's signal array, the object passed as `x`
    x,          \* cwt: the padded signal (a new array made by padsignal)
    x_mean, n, N, n1, n2,
    scales,     \* the resolved scale array
    Wx, dWx,    \* the transform matrices, as sequences of rows
    xh,         \* cwt: the spectrum fft(x)
    psihfn,     \* cwt: the Wavelet sampler
    psihs,      \* cwt: psih of every row computed so far
    dpsihs,     \* cwt: dpsih of every row computed so far
    i,          \* cwt: rows computed so far
    warned,     \* cwt: the NaN/inf warning was printed
    raised,     \* the exception that ended the call
    ret,        \* the value returned
    na,         \* icwt: the number of rows of Wx
    freqscale,  \* icwt: the kind of spacing of the scales
    wav,        \* a Wavelet object held by the caller
    out         \* the last value returned to the caller by _xi or a Wavelet call

vars == << pc, op, args, caller_x, x, x_mean, n, N, n1, n2, scales, Wx, dWx, xh,
           psihfn, psihs, dpsihs, i, warned, raised, ret, na, freqscale, wav, out >>

\* ------------------------------------------------------------------ signals
Fin(v) == [k |-> "fin", v |-> v]
NaN    == [k |-> "nan", v |-> 0]
PosInf == [k |-> "inf", v |-> 1]
NegInf == [k |-> "inf", v |-> -1]

Samples == {Fin(1), NaN, PosInf}

Signals == UNION {[1..len -> Samples] : len \in 1..MaxLen}

\* np.isnan(x.max()), np.isinf(x.max()), np.isinf(x.min())
IsNanMax(s) == \E k \in DOMAIN s : s[k] = NaN
IsInfMax(s) == ~IsNanMax(s) /\ ((\E k \in DOMAIN s : s[k] = PosInf)
                                \/ (\A k \in DOMAIN s : s[k] = NegInf))
IsInfMin(s) == ~IsNanMax(s) /\ ((\E k \in DOMAIN s : s[k] = NegInf)
                                \/ (\A k \in DOMAIN s : s[k] = PosInf))

\* x.mean() of a finite signal, as << sum, count >>
RECURSIVE Sum(_)
Sum(s) == IF s = << >> THEN 0 ELSE s[1].v + Sum(Tail(s))
Mean(s) == << Sum(s), Len(s) >>

\* --------------------------------------------------------- scale arrays
RECURSIVE AscSeqsFrom(_)
AscSeqsFrom(lo) ==
    IF lo > MaxScale THEN {<< >>}
    ELSE AscSeqsFrom(lo + 1) \cup {<< lo >> \o t : t \in AscSeqsFrom(lo + 1)}

\* the ascending arrays of positive scales, of length 1..MaxScale
AscSeqs == AscSeqsFrom(1) \ {<< >>}

ScaleSpecs == {[kind |-> "log", arr |-> << >>], [kind |-> "linear", arr |-> << >>]}
              \cup {[kind |-> "array", arr |-> a] : a \in AscSeqs}

\* np.sqrt(a) ** e2 for a scale a: a ** (e2/2); a ** 0 and 1 ** e are both 1
Power(a, e2) == IF a = 1 \/ e2 = 0 THEN << 1, 0 >> ELSE << a, e2 >>

\* ---------------------------------------------------------------- cells
\* column j of ifftshift(ifft(xh * psih)) for the psih of row r, times the
\* factors in `mul`, over the factors in `div`
Cell(kind, r, j) == [kind |-> kind, row |-> r, col |-> j, mul |-> << 1, 0 >>]
ZeroCell         == [kind |-> "zero", row |-> 0, col |-> 0, mul |-> << 1, 0 >>]
TimesSqrt(c, a)  == IF c.kind = "zero" THEN c ELSE [c EXCEPT !.mul = Power(a, 1)]

Rows(M) == Len(M)
Cols(M) == IF M = << >> THEN 0 ELSE Len(M[1])

\* ------------------------------------------------------------------ cwt
\* a faulty variant: dt >= 0
DtNotNegative(dt) == dt >= 0

\* dt > 0
DtValid(dt) == dt > 0

IsPow2(m) == \E k \in 0..m : Pow2(k) = m

\* psih = psihfn(a) * pn, with pn = (-1) ** np.arange(N)
cwt_psih(fn_obj, a, N_) ==
    LET r == Wavelet__call__(fn_obj, PosNum(Scalar(a)))
    IN  [k \in 1..N_ |->
            [sign |-> NegOnePow(k - 1),
             samp |-> IF r.shape = "scalar" THEN r.v[1] ELSE r.v[k]]]

\* dpsih = (1j * psihfn.xi / dt) * psih
cwt_dpsih(fn_obj, dt, psih) ==
    [k \in DOMAIN psih |-> [xi |-> fn_obj.xi[k], dt |-> dt, psih |-> psih[k]]]

\* a faulty variant: M[:, :n]
ShortenFromStart(M, n1_, n_) ==
    [r \in 1..Len(M) |-> SubSeq(M[r], 1, n_)]

\* M[:, n1:n1 + n]
Shorten(M, n1_, n_) ==
    [r \in 1..Len(M) |-> SubSeq(M[r], n1_ + 1, n1_ + n_)]

\* The scale array is a column of na scales (shape (na, 1)); `scales` holds its
\* entries in order.  numpy aligns the column with the ROWS of a matrix M:
\* M *= v needs one entry of v per row of M, or a single entry.
BroadcastOK(M, v) == Len(v) = Rows(M) \/ Len(v) = 1

\* a faulty variant: the factor of column j goes to every cell of column j
TimesSqrtScalesByColumn(M, v) ==
    [r \in 1..Len(M) |->
        [j \in 1..Len(M[r]) |-> TimesSqrt(M[r][j], v[((j - 1) % Len(v)) + 1])]]

\* M *= np.sqrt(v)
TimesSqrtScales(M, v) ==
    [r \in 1..Len(M) |->
        [j \in 1..Len(M[r]) |-> TimesSqrt(M[r][j], IF Len(v) = 1 THEN v[1] ELSE v[r])]]

\* process_scales(scales, len_x, nv=, na=): the results it may give, each the
\* scale array and the kind of spacing.  na_ = 0 stands for na=None.
process_scales(sc, na_) ==
    IF sc.kind = "array"
    THEN {[scales |-> sc.arr, freqscale |-> f] : f \in {"log", "linear"}}
    ELSE {[scales |-> a, freqscale |-> sc.kind] :
             a \in {b \in AscSeqs : na_ = 0 \/ Len(b) = na_}}

NoRet == [returned |-> FALSE, Wx |-> << >>, scales |-> << >>, dWx |-> << >>,
          x_mean |-> << >>, x |-> << >>]

CwtWavelets ==
    {StrSpec("morlet"), StrSpec("not_a_wavelet"), TupleSpec(2, "bump", TRUE, {"mu", "s"}),
     TupleSpec(2, "morlet", FALSE, {"mu"}), FunctionSpec("custom_fn"),
     WaveletInstance("morlet"), OtherSpec}

Init ==
    /\ pc = "idle" /\ op = "none"
    /\ args = [wavelet |-> OtherSpec]
    /\ caller_x = << >>
    /\ x = << >> /\ x_mean = << >> /\ n = 0 /\ N = 0 /\ n1 = 0 /\ n2 = 0
    /\ scales = << >> /\ Wx = << >> /\ dWx = << >> /\ xh = << >>
    /\ psihfn = NewObject /\ psihs = << >> /\ dpsihs = << >> /\ i = 0
    /\ warned = FALSE
    /\ raised = NoExc /\ ret = NoRet
    /\ na = 0 /\ freqscale = ""
    /\ wav = NewObject /\ out = << >>

\* a call of cwt(x, wavelet, scales, dt, nv, l1_norm, padtype, rpadded)
CwtCall ==
    /\ pc = "idle"
    /\ \E sig \in Signals, w \in CwtWavelets, sc \in ScaleSpecs, dt \in {-1, 0, 1},
          l1 \in BOOLEAN, rp \in BOOLEAN :
         /\ args' = [wavelet |-> w, scales |-> sc, dt |-> dt, l1_norm |-> l1,
                     rpadded |-> rp]
         /\ caller_x' = sig
    /\ pc' = "cwt_process_args" /\ op' = "cwt"
    /\ x' = << >> /\ x_mean' = << >> /\ n' = 0 /\ N' = 0 /\ n1' = 0 /\ n2' = 0
    /\ scales' = << >> /\ Wx' = << >> /\ dWx' = << >> /\ xh' = << >>
    /\ psihfn' = NewObject /\ psihs' = << >> /\ dpsihs' = << >> /\ i' = 0
    /\ warned' = FALSE
    /\ raised' = NoExc /\ ret' = NoRet
    /\ UNCHANGED << na, freqscale, wav, out >>

\* replace_at_inf_or_nan(x, replacement=0), in place
replace_at_inf_or_nan(s) ==
    [k \in DOMAIN s |-> IF s[k].k = "fin" THEN s[k] ELSE Fin(0)]

\* _process_args(x, scales, dt)
CwtProcessArgs ==
    /\ pc = "cwt_process_args"
    /\ IF ~DtValid(args.dt)
       THEN /\ raised' = Exc("ValueError", "dt must be > 0")
            /\ pc' = "done"
            /\ UNCHANGED << caller_x, warned >>
       ELSE /\ IF IsNanMax(caller_x) \/ IsInfMax(caller_x) \/ IsInfMin(caller_x)
               THEN warned' = TRUE /\ caller_x' = replace_at_inf_or_nan(caller_x)
               ELSE UNCHANGED << caller_x, warned >>
            /\ pc' = "cwt_pad"
            /\ UNCHANGED raised
    /\ UNCHANGED << op, args, x, x_mean, n, N, n1, n2, scales, Wx, dWx, xh, psihfn,
                    psihs, dpsihs, i, ret, na, freqscale, wav, out >>

\* the padded signal: the samples in place n1+1..n1+n, padding around them
Padded(s, N_, n1_) ==
    [k \in 1..N_ |-> IF k > n1_ /\ k <= n1_ + Len(s)
                     THEN [k |-> "sample", at |-> k - n1_, centred |-> FALSE]
                     ELSE [k |-> "pad", at |-> k, centred |-> FALSE]]

\* p2up(n): the padded lengths and pad widths it may give: a power of two N
\* that holds n samples, n1 to the left of them and n2 to the right
p2up(len) ==
    {p \in {[N |-> N_, n1 |-> l, n2 |-> N_ - len - l] :
               N_ \in {m \in len..MaxPadN : IsPow2(m)}, l \in 0..MaxPadN} : p.n2 >= 0}

\* padsignal(x, padtype): a new array and the widths of p2up
padsignal(s) ==
    {[x |-> Padded(s, p.N, p.n1), N |-> p.N, n1 |-> p.n1, n2 |-> p.n2] : p \in p2up(Len(s))}

\* lines 93-95: x_mean, n, and padsignal(x, padtype) -> x, N, n1, n2
CwtPad ==
    /\ pc = "cwt_pad"
    /\ x_mean' = Mean(caller_x)
    /\ n' = Len(caller_x)
    /\ \E p \in padsignal(caller_x) :
         x' = p.x /\ N' = p.N /\ n1' = p.n1 /\ n2' = p.n2
    /\ pc' = "cwt_scales"
    /\ UNCHANGED << op, args, caller_x, scales, Wx, dWx, xh, psihfn, psihs, dpsihs, i,
                    warned, raised, ret, na, freqscale, wav, out >>

\* lines 97-104: process_scales, the zero matrices, centring, the spectrum
CwtScales ==
    /\ pc = "cwt_scales"
    /\ \E ps \in process_scales(args.scales, 0) :
         /\ scales' = ps.scales
         /\ Wx'  = [r \in 1..Len(ps.scales) |-> [j \in 1..N |-> ZeroCell]]
         /\ dWx' = [r \in 1..Len(ps.scales) |-> [j \in 1..N |-> ZeroCell]]
    /\ x' = [k \in DOMAIN x |-> [x[k] EXCEPT !.centred = TRUE]]
    /\ xh' = [k \in DOMAIN x |-> [bin |-> k - 1]]
    /\ pc' = "cwt_wavelet"
    /\ UNCHANGED << op, args, caller_x, x_mean, n, N, n1, n2, psihfn, psihs, dpsihs, i,
                    warned, raised, ret, na, freqscale, wav, out >>

\* lines 106-107: psihfn = Wavelet(wavelet, N=N)
CwtWavelet ==
    /\ pc = "cwt_wavelet"
    /\ LET w == Wavelet__init__(args.wavelet, N)
       IN  IF w.exc # NoExc
           THEN raised' = w.exc /\ pc' = "done" /\ UNCHANGED psihfn
           ELSE psihfn' = w.self /\ pc' = "cwt_loop" /\ UNCHANGED raised
    /\ UNCHANGED << op, args, caller_x, x, x_mean, n, N, n1, n2, scales, Wx, dWx, xh,
                    psihs, dpsihs, i, warned, ret, na, freqscale, wav, out >>

\* lines 111-121: one pass of the loop over the scales
CwtRow ==
    /\ pc = "cwt_loop"
    /\ i < Len(scales)
    /\ LET r    == i + 1
           a    == scales[r]
           psih == cwt_psih(psihfn, a, N)
       IN  /\ psihs'  = Append(psihs, psih)
           /\ dpsihs' = Append(dpsihs, cwt_dpsih(psihfn, args.dt, psih))
           /\ Wx'  = [Wx  EXCEPT ![r] = [j \in 1..N |-> Cell("W", r, j)]]
           /\ dWx' = [dWx EXCEPT ![r] = [j \in 1..N |-> Cell("dW", r, j)]]
           /\ i' = r
    /\ UNCHANGED << pc, op, args, caller_x, x, x_mean, n, N, n1, n2, scales, xh, psihfn,
                    warned, raised, ret, na, freqscale, wav, out >>

\* lines 123-126: drop the padding unless rpadded
CwtShorten ==
    /\ pc = "cwt_loop"
    /\ i = Len(scales)
    /\ IF ~args.rpadded
       THEN Wx' = Shorten(Wx, n1, n) /\ dWx' = Shorten(dWx, n1, n)
       ELSE UNCHANGED << Wx, dWx >>
    /\ pc' = "cwt_norm"
    /\ UNCHANGED << op, args, caller_x, x, x_mean, n, N, n1, n2, scales, xh, psihfn,
                    psihs, dpsihs, i, warned, raised, ret, na, freqscale, wav, out >>

\* lines 127-132: the L2 factor, and the return
CwtNormalize ==
    /\ pc = "cwt_norm"
    /\ IF args.l1_norm
       THEN /\ ret' = [returned |-> TRUE, Wx |-> Wx, scales |-> scales, dWx |-> dWx,
                       x_mean |-> x_mean, x |-> << >>]
            /\ UNCHANGED << Wx, dWx, raised >>
       ELSE IF ~BroadcastOK(Wx, scales)
       THEN /\ raised' = Exc("ValueError", "operands could not be broadcast together")
            /\ UNCHANGED << Wx, dWx, ret >>
       ELSE /\ Wx'  = TimesSqrtScales(Wx, scales)
            /\ dWx' = TimesSqrtScales(dWx, scales)
            /\ ret' = [returned |-> TRUE, Wx |-> Wx', scales |-> scales, dWx |-> dWx',
                       x_mean |-> x_mean, x |-> << >>]
            /\ UNCHANGED raised
    /\ pc' = "done"
    /\ UNCHANGED << op, args, caller_x, x, x_mean, n, N, n1, n2, scales, xh, psihfn,
                    psihs, dpsihs, i, warned, na, freqscale, wav, out >>

NextCwt == CwtCall \/ CwtProcessArgs \/ CwtPad \/ CwtScales \/ CwtWavelet \/ CwtRow
           \/ CwtShorten \/ CwtNormalize

SpecCwt == Init /\ [][NextCwt]_vars

\* ---------------------------------------------------- _xi and Wavelet calls
GridSizes == (1..MaxGridN) \cup {128, 129}

\* a call of _xi(scale, N)
XiCall ==
    /\ pc = "idle"
    /\ \E scale \in 1..MaxScale, N_ \in GridSizes :
         /\ args' = [scale |-> scale, N |-> N_]
         /\ out' = _xi(scale, N_)
    /\ op' = "_xi" /\ pc' = "done"
    /\ UNCHANGED << caller_x, x, x_mean, n, N, n1, n2, scales, Wx, dWx, xh, psihfn,
                    psihs, dpsihs, i, warned, raised, ret, na, freqscale, wav >>

\* Wavelet(wavelet, N): the caller gets the object, or the exception
WaveletNew ==
    /\ pc = "idle"
    /\ \E w \in WaveletSpecs, N0 \in 1..MaxGridN :
         LET v == Wavelet__init__(w, N0)
         IN  /\ args' = [wavelet |-> w, N |-> N0, call |-> KwScale(0)]
             /\ wav' = v.self
             /\ raised' = v.exc
             /\ pc' = IF v.exc = NoExc THEN "wav_ready" ELSE "done"
    /\ op' = "Wavelet"
    /\ UNCHANGED << caller_x, x, x_mean, n, N, n1, n2, scales, Wx, dWx, xh, psihfn,
                    psihs, dpsihs, i, warned, ret, na, freqscale, out >>

CallArgs ==
    {PosNum(Scalar(a)) : a \in 1..MaxScale}
    \cup {PosArr(<< Scalar(1), Scalar(2) >>)}
    \cup {KwScale(a) : a \in 1..MaxScale}
    \cup {KwScaleN(a, N_) : a \in 1..MaxScale, N_ \in 1..MaxGridN}

\* wav(w), wav(scale=a), wav(scale=a, N=N)
WaveletCall ==
    /\ pc = "wav_ready"
    /\ \E c \in CallArgs :
         /\ args' = [args EXCEPT !.call = c]
         /\ out' = Wavelet__call__(wav, c)
         /\ wav' = Wavelet__call__self(wav, c)
    /\ UNCHANGED << pc, op, caller_x, x, x_mean, n, N, n1, n2, scales, Wx, dWx, xh,
                    psihfn, psihs, dpsihs, i, warned, raised, ret, na, freqscale >>

NextWavelets == XiCall \/ WaveletNew \/ WaveletCall

SpecWavelets == Init /\ [][NextWavelets]_vars

\* ------------------------------------------------------------------ icwt
\* a faulty variant: one_int is not looked at
IcwtNormIgnoresOneInt(freqscale_, l1_norm, one_int) ==
    IF l1_norm
    THEN (IF freqscale_ = "log" THEN 0 ELSE 2)
    ELSE IF freqscale_ = "log" THEN 1
    ELSE IF freqscale_ = "linear" THEN 3
    ELSE -1

\* _icwt_norm: the exponent e2 of the function  norm(a) = a ** (e2 / 2)  it
\* selects;  -1 when `norm` is left unbound
_icwt_norm(freqscale_, l1_norm, one_int) ==
    IF l1_norm
    THEN (IF freqscale_ = "log" THEN 0 ELSE 2)
    ELSE IF freqscale_ = "log" THEN (IF one_int THEN 1 ELSE 2)
    ELSE IF freqscale_ = "linear" THEN (IF one_int THEN 3 ELSE 4)
    ELSE -1

\* one term of a sum over rows: a cell of row r of Wx, over a norm
Term(r, c, d) == [row |-> r, cell |-> c, div |-> d]

\* an entry of the reconstruction: its terms, whether the gain was applied,
\* and the mean added
Entry(ts) == [terms |-> ts, gain |-> << >>, mean |-> << >>]

\* Wx.real / norm(scales) broadcasts: norm is the number 1, or a column with
\* one entry per row of Wx, or one of the two has a single row
Icwt1intOK(M, sc, e2) == e2 = 0 \/ Len(sc) = Rows(M) \/ Len(sc) = 1 \/ Rows(M) = 1

\* _icwt_1int: (Wx.real / norm(scales)).sum(axis=0)
_icwt_1int(M, sc, freqscale_, l1_norm) ==
    LET e2 == _icwt_norm(freqscale_, l1_norm, TRUE)
        R  == IF e2 = 0 \/ Len(sc) = 1 THEN Rows(M) ELSE Len(sc)
    IN  [j \in 1..Cols(M) |->
            Entry([r \in 1..R |->
                      Term(IF Rows(M) = 1 THEN 1 ELSE r,
                           M[IF Rows(M) = 1 THEN 1 ELSE r][j],
                           IF e2 = 0 THEN Power(1, 0)
                           ELSE Power(sc[IF Len(sc) = 1 THEN 1 ELSE r], e2))])]

\* fft(Wxa) * psih and x += xa / norm(a) broadcast: the row is as long as x,
\* or has one entry
Icwt2intOK(M, N_) == Cols(M) = N_ \/ Cols(M) = 1

Min(a, b) == IF a < b THEN a ELSE b

\* _icwt_2int: x = zeros(N); for each pair of zip(scales, Wx): the row
\* convolved with wfilth(wavelet, N, a), over norm(a), is added to x
_icwt_2int(M, sc, N_, freqscale_, l1_norm) ==
    LET e2 == _icwt_norm(freqscale_, l1_norm, FALSE)
    IN  [j \in 1..N_ |->
            Entry([r \in 1..Min(Len(sc), Rows(M)) |->
                      Term(r, [kind |-> "conv", row |-> r, col |-> j, mul |-> << sc[r], 0 >>],
                           Power(sc[r], e2))])]

\* np.pad(Wx, [[0, 0], [n1, n2]])
PadCols(M, left, right) ==
    [r \in 1..Len(M) |->
        [j \in 1..(left + Len(M[r]) + right) |->
            IF j > left /\ j <= left + Len(M[r]) THEN M[r][j - left] ELSE ZeroCell]]

\* s[a:b] of Python, for 0 <= a <= b
Slice(s, a, b) == SubSeq(s, a + 1, Min(b, Len(s)))

InputWx(rows, cols) == [r \in 1..rows |-> [j \in 1..cols |-> Cell("W", r, j)]]

\* a call of icwt(Wx, wavelet, scales, one_int, x_len, x_mean, padtype,
\* rpadded, l1_norm);  x_len = 0 stands for x_len=None
IcwtCall ==
    /\ pc = "idle"
    /\ \E rows \in 1..MaxScale, cols \in 1..MaxPadN, sc \in ScaleSpecs,
          oi \in BOOLEAN, xl \in 0..MaxPadN, rp \in BOOLEAN, l1 \in BOOLEAN :
         /\ args' = [Wx |-> InputWx(rows, cols), wavelet |-> StrSpec("morlet"),
                     scales |-> sc, one_int |-> oi, x_len |-> xl, x_mean |-> << 1, 1 >>,
                     rpadded |-> rp, l1_norm |-> l1]
         /\ Wx' = InputWx(rows, cols)
    /\ op' = "icwt" /\ pc' = "icwt_prepare"
    /\ UNCHANGED << caller_x, x, x_mean, n, N, n1, n2, scales, dWx, xh, psihfn, psihs,
                    dpsihs, i, warned, raised, ret, na, freqscale, wav, out >>

\* lines 188-198
IcwtPrepare ==
    /\ pc = "icwt_prepare"
    /\ LET x_len == IF args.x_len = 0 THEN Cols(Wx) ELSE args.x_len
       IN  /\ na' = Rows(Wx)
           /\ \E p \in p2up(x_len), ps \in process_scales(args.scales, Rows(Wx)) :
                /\ N' = p.N /\ n1' = p.n1 /\ n2' = p.n2
                /\ scales' = ps.scales /\ freqscale' = ps.freqscale
                /\ IF ~args.rpadded
                   THEN Wx' = PadCols(Wx, p.n1, p.n2) /\ n' = Cols(Wx)
                   ELSE n' = x_len /\ UNCHANGED Wx
    /\ pc' = "icwt_invert"
    /\ UNCHANGED << op, args, caller_x, x, x_mean, dWx, xh, psihfn, psihs, dpsihs, i,
                    warned, raised, ret, wav, out >>

\* lines 201-204
IcwtInvert ==
    /\ pc = "icwt_invert"
    /\ IF args.one_int
       THEN IF Icwt1intOK(Wx, scales, _icwt_norm(freqscale, args.l1_norm, TRUE))
            THEN /\ x' = _icwt_1int(Wx, scales, freqscale, args.l1_norm)
                 /\ pc' = "icwt_finish" /\ UNCHANGED raised
            ELSE /\ raised' = Exc("ValueError", "operands could not be broadcast together")
                 /\ pc' = "done" /\ UNCHANGED x
       ELSE IF Icwt2intOK(Wx, N)
            THEN /\ x' = _icwt_2int(Wx, scales, N, freqscale, args.l1_norm)
                 /\ pc' = "icwt_finish" /\ UNCHANGED raised
            ELSE /\ raised' = Exc("ValueError", "operands could not be broadcast together")
                 /\ pc' = "done" /\ UNCHANGED x
    /\ UNCHANGED << op, args, caller_x, x_mean, n, N, n1, n2, scales, Wx, dWx, xh, psihfn,
                    psihs, dpsihs, i, warned, ret, na, freqscale, wav, out >>

\* lines 206-218: the admissibility gain, the mean, the unpadded part
IcwtFinish ==
    /\ pc = "icwt_finish"
    /\ LET Cpsi == IF args.one_int THEN "adm_ssq" ELSE "adm_cwt"
           g    == << Cpsi, freqscale = "log" >>
           full == [j \in DOMAIN x |-> [x[j] EXCEPT !.gain = g, !.mean = args.x_mean]]
       IN  /\ x' = Slice(full, n1, n1 + n)
           /\ ret' = [returned |-> TRUE, Wx |-> << >>, scales |-> << >>, dWx |-> << >>,
                      x_mean |-> << >>, x |-> x']
    /\ pc' = "done"
    /\ UNCHANGED << op, args, caller_x, x_mean, n, N, n1, n2, scales, Wx, dWx, xh, psihfn,
                    psihs, dpsihs, i, warned, raised, na, freqscale, wav, out >>

NextIcwt == IcwtCall \/ IcwtPrepare \/ IcwtInvert \/ IcwtFinish

SpecIcwt == Init /\ [][NextIcwt]_vars

Next == NextWavelets \/ NextCwt \/ NextIcwt

Spec == Init /\ [][Next]_vars

\* ------------------------------------------------------------ claims: cwt

\* the filter the forward transform is to use for scale a on a grid of
\* length N_:  psi_hat(a * xi_N)[k] * (-1)^k
SampledFilter(fn, a, N_) ==
    [k \in 1..N_ |-> [sign |-> NegOnePow(k - 1),
                      samp |-> FnAt(fn, ScaleTimes(a, _xi(1, N_))[k])]]

\* C1: in cwt, the filter of every computed row i is the wavelet sampled on
\* the length-N grid at scale scales[i], times (-1)^k, and row i of Wx is the
\* half-rotated inverse FFT of that filter times the signal spectrum.
C1_RowFilterIsSampledOnGrid ==
    (op = "cwt" /\ pc = "cwt_loop") =>
        \A r \in 1..i :
            /\ psihs[r] = SampledFilter(psihfn.fn, scales[r], N)
            /\ Wx[r] = [j \in 1..N |-> Cell("W", r, j)]

\* C2: a cwt call that returns gives Wx and dWx of one shape, with len(scales)
\* rows and n (rpadded False) or N (rpadded True) columns; with rpadded False
\* the columns are columns n1..n1+n-1 of the padded result.
C2_ReturnedShape ==
    (op = "cwt" /\ ret.returned) =>
        /\ n = Len(caller_x) /\ N = Len(x)
        /\ Rows(ret.Wx) = Len(ret.scales) /\ Rows(ret.dWx) = Len(ret.scales)
        /\ \A r \in 1..Len(ret.scales) :
              /\ Len(ret.Wx[r])  = (IF args.rpadded THEN N ELSE n)
              /\ Len(ret.dWx[r]) = (IF args.rpadded THEN N ELSE n)
              /\ ~args.rpadded =>
                    \A j \in 1..n :
                        /\ ret.Wx[r][j].row = r  /\ ret.Wx[r][j].col = n1 + j
                        /\ ret.dWx[r][j].row = r /\ ret.dWx[r][j].col = n1 + j
                        /\ ret.Wx[r][j].kind = "W" /\ ret.dWx[r][j].kind = "dW"

C2_Witness ==
    /\ op = "cwt" /\ ret.returned /\ ~args.rpadded
    /\ n1 > 0 /\ n2 > 0 /\ n > 1 /\ Len(ret.scales) > 1

C5_BadDtFailsAtEntry ==
    (op = "cwt" /\ ~(args.dt > 0)) =>
        /\ pc \in {"cwt_process_args", "done"}
        /\ pc = "done" => raised = Exc("ValueError", "dt must be > 0")
        /\ ~ret.returned
        /\ x = << >> /\ x_mean = << >> /\ N = 0
        /\ scales = << >> /\ Wx = << >> /\ dWx = << >> /\ xh = << >>
        /\ psihfn = NewObject /\ i = 0

C5_Witness ==
    /\ op = "cwt" /\ pc = "done" /\ args.dt = 0
    /\ raised = Exc("ValueError", "dt must be > 0") /\ ~ret.returned

\* the three documented forms of cwt's `wavelet` argument
DocumentedForm(w) ==
    \/ w.tag = "str" /\ w.name \in SUPPORTED
    \/ w.tag = "tuple" /\ w.len = 2 /\ w.dict /\ w.name \in SUPPORTED
         /\ w.opts \subseteq Accepted(w.name)
    \/ w.tag = "Wavelet"

\* C8: with a wavelet argument of a documented form, cwt gets past the
\* construction of the sampler and on to the per-scale filters.
C8_DocumentedFormsAccepted ==
    (op = "cwt" /\ DocumentedForm(args.wavelet) /\ DtValid(args.dt) /\ pc = "done") =>
        /\ raised.what # "wavelet spec"
        /\ Len(psihs) = Len(scales) /\ Len(scales) > 0

\* C13: cwt never modifies the caller's signal array: at every step of a
\* call the array holds the values it held before, also when it has NaN or
\* infinite samples; those are taken as 0 with a warning and without failing,
\* and x_mean is the mean of the signal with them replaced.
C13_CallerSignalIsNeverModified ==
    [][op = "cwt" =>
          /\ caller_x' = caller_x
          /\ (pc = "cwt_process_args" /\ DtValid(args.dt)
                 /\ \E k \in DOMAIN caller_x : caller_x[k].k # "fin") =>
                (warned' /\ raised' = NoExc /\ pc' # "done")
          /\ pc = "cwt_pad" => x_mean' = Mean(replace_at_inf_or_nan(caller_x))
    ]_vars

\* ------------------------------------------------- claims: wavelets, _xi

\* C6: constructing a Wavelet: an unsupported name (a string, or the first of
\* a (name, dict) pair) raises the unsupported-wavelet error (ValueError); a
\* spec that is no string, no (name, dict) pair and no function raises the
\* invalid-argument error (TypeError); a failure leaves fn and name unset; a
\* success binds fn to the callable of the requested member and name to its
\* name.
C6_ValidateAndSetWavelet ==
    (op = "Wavelet") =>
        LET w     == args.wavelet
            named == w.tag = "str" \/ (w.tag = "tuple" /\ w.len = 2 /\ w.dict)
        IN  /\ (named /\ w.name \notin SUPPORTED) =>
                   raised = Exc("ValueError", "wavelet not supported")
            /\ (~named /\ w.tag # "function") => raised = Exc("TypeError", "wavelet spec")
            /\ raised # NoExc => (wav.fn = Unset /\ wav.name = "unset" /\ pc = "done")
            /\ raised = NoExc =>
                   /\ named \/ w.tag = "function"
                   /\ wav.name = w.name
                   /\ wav.fn = Family(w.name, IF w.tag = "tuple" THEN w.opts ELSE NoOpts)
                   /\ w.tag # "function" => w.name \in SUPPORTED

C6_Witness ==
    /\ op = "Wavelet" /\ pc = "done"
    /\ args.wavelet = TupleSpec(2, "not_a_wavelet", TRUE, {"mu"})
    /\ raised = Exc("ValueError", "wavelet not supported")
    /\ wav.name = "unset"

\* C9: _xi(scale, N) has N entries; entry i is i*h for i <= N div 2 and
\* (i - N)*h above, h = scale*2*pi/N: for N = 128 the multipliers are 0..64
\* then -63..-1, for N = 129 they are 0..64 then -64..-1.
C9_XiIsFftBinOrder ==
    (op = "_xi" /\ pc = "done") =>
        /\ Len(out) = args.N
        /\ \A idx \in 0..(args.N - 1) :
              out[idx + 1] = Freq(0, (IF idx <= args.N \div 2 THEN idx ELSE idx - args.N)
                                        * args.scale, args.N)
        /\ args.N \in {128, 129} =>
              /\ \A idx \in 0..64 : out[idx + 1].m = idx * args.scale
              /\ out[66].m = (IF args.N = 128 THEN -63 ELSE -64) * args.scale
              /\ out[args.N].m = -1 * args.scale

C9_Witness ==
    /\ op = "_xi" /\ pc = "done" /\ args.N = 129 /\ args.scale = 2
    /\ out[65].m = 128 /\ out[66].m = -128

\* entry k (from 0) of the FFT-bin-ordered grid of length N_ at scale a
GridEntry(a, N_, k) == Freq(0, (IF k <= N_ \div 2 THEN k ELSE k - N_) * a, N_)

\* C11: a Wavelet constructed with grid size N0 holds xi = _xi(1, N0) from
\* construction on, whatever evaluation calls were made; a scale-only call
\* returns fn(scale * xi) on that length-N0 grid, a call with scale and N
\* returns fn on a length-N grid at that scale, and a call with an explicit w
\* returns fn(w).
C11_CachedGridIsNeverChanged ==
    (op = "Wavelet" /\ pc = "wav_ready") =>
        LET c  == args.call
            N0 == args.N
        IN  /\ Len(wav.xi) = N0
            /\ \A k \in 1..N0 : wav.xi[k] = GridEntry(1, N0, k - 1)
            /\ (c.w # << >> /\ c.warr) =>
                   out = Arr([k \in 1..Len(c.w) |-> FnAt(wav.fn, c.w[k])])
            /\ (c.w # << >> /\ ~c.warr) => out = Num(FnAt(wav.fn, c.w[1]))
            /\ (c.w = << >> /\ c.scale > 0 /\ c.N = 0) =>
                   out = Arr([k \in 1..N0 |-> FnAt(wav.fn, GridEntry(c.scale, N0, k - 1))])
            /\ (c.w = << >> /\ c.N > 0) =>
                   out = Arr([k \in 1..c.N |-> FnAt(wav.fn, GridEntry(c.scale, c.N, k - 1))])

\* a call with scale 2 and N = 3 on an object built with N0 = 5
C11_Witness ==
    /\ op = "Wavelet" /\ pc = "wav_ready" /\ args.N = 5
    /\ args.call = KwScaleN(2, 3)
    /\ Len(out.v) = 3 /\ out.v[3].at = Freq(0, -2, 3)
    /\ Len(wav.xi) = 5 /\ wav.xi[5] = Freq(0, -1, 5)

\* ------------------------------------------------------------ claims: icwt

\* C7: icwt given an explicit scale array whose length is not the number of
\* rows of Wx fails, and returns no reconstructed signal.
C7_ScaleCountMismatchFails ==
    (op = "icwt" /\ pc = "done" /\ args.scales.kind = "array"
        /\ Len(args.scales.arr) # Rows(args.Wx)) =>
        /\ raised # NoExc
        /\ ~ret.returned

\* the table of norm(a) = a ** (e2 / 2), by spacing, l1_norm and algorithm
NormTable(spacing, l1_norm, one_int) ==
    CASE spacing = "log"    /\ l1_norm               -> 0
      [] spacing = "linear" /\ l1_norm               -> 2
      [] spacing = "log"    /\ ~l1_norm /\ one_int   -> 1
      [] spacing = "log"    /\ ~l1_norm /\ ~one_int  -> 2
      [] spacing = "linear" /\ ~l1_norm /\ one_int   -> 3
      [] spacing = "linear" /\ ~l1_norm /\ ~one_int  -> 4

C12_ReturnsXLenSamplesOfPaddedWidth ==
    (op = "icwt" /\ pc = "done"
        /\ (args.scales.kind = "array" => Len(args.scales.arr) = Rows(args.Wx))
        /\ (args.rpadded => Cols(args.Wx) = N)) =>
        LET x_len == IF args.x_len = 0 THEN Cols(args.Wx) ELSE args.x_len
        IN  /\ raised = NoExc /\ ret.returned
            /\ N = n1 + x_len + n2
            /\ Cols(Wx) = N
            /\ Len(ret.x) = x_len
            /\ \A j \in 1..x_len :
                  /\ ret.x[j].mean = args.x_mean
                  /\ \A r \in DOMAIN ret.x[j].terms :
                        IF args.one_int
                        THEN ret.x[j].terms[r].cell = Wx[r][n1 + j]
                        ELSE ret.x[j].terms[r].cell.col = n1 + j

====
